---- MODULE Spec2Model ----
(***************************************************************************)
(* Model of the stock optimiser (utils/optimizador_stock.py) and of the    *)
(* invoice generator (utils/generador_facturas.py).                        *)
(*                                                                         *)
(* Quantities are integers (eggs).  Money is fixed point, in thousandths   *)
(* of a peso, so that round(x, 2) is a real operation.  A date is a record *)
(* [y, m, d] with the proleptic Gregorian calendar of datetime.            *)
(***************************************************************************)
EXTENDS Integers, Naturals, Sequences, FiniteSets, TLC

VARIABLES
    prog,               \* entry point that is running: "opt", "gen" or "frag"
    pc,                 \* position inside the running function
    \* ---- optimizar_stock
    existe_base,        \* os.path.exists(ruta_excel_base)
    columnas_base,      \* df.columns of the base file
    registros,          \* rows of the base file
    has_pulp,           \* HAS_PULP
    df_group,           \* df_group: one record per (tipo, valor unitario)
    target_sales,       \* target_sales
    resultado_opt,      \* value returned by optimizar_stock
    \* ---- file system
    archivos,           \* output files written so far
    carpeta_creada,     \* os.makedirs(resultados) was called
    \* ---- generar_facturas_desde_optimo
    existe_stock,       \* os.path.exists(ruta_stock_optimo)
    columnas_stock,     \* df.columns of the stock file
    stock,              \* rows of the stock file, as cells
    df,                 \* df: the rows after the type conversions, with column mes
    meses_pend,         \* month groups of df.groupby('mes') still to process
    datos_mes,          \* rows of the month group being processed
    month_start,        \* month_start of the group being processed
    month_end,          \* month_end of the group being processed
    bdays,              \* bdays of the group being processed
    facturas_mes,       \* facturas_mes
    todas_facturas,     \* todas_facturas
    numero_factura,     \* numero_factura
    total_global,       \* total_global (thousandths of a peso)
    fila,               \* position of the iterrows() loop in datos_mes
    p_idx,              \* position of the "for p in partes" loop
    hojas,              \* sheets written to the ExcelWriter: <<name, rows>>
    error_gen,          \* exception raised by generar_facturas_desde_optimo
    \* ---- fragmentar_cantidad_en_facturas
    total_qty,          \* argument total_qty
    min_unit,           \* argument min_unit
    max_unit,           \* argument max_unit
    multiple,           \* argument multiple
    remaining,          \* local remaining
    partes,             \* local partes
    \* ---- repeated runs of generar_facturas_desde_optimo on one stock file
    corrida,            \* number of the run in progress
    salida_previa       \* sheets and error of the run before this one

varsOpt == <<existe_base, columnas_base, registros, has_pulp, df_group, target_sales,
             resultado_opt>>
varsFs == <<archivos, carpeta_creada>>
varsGenIn == <<existe_stock, columnas_stock, stock>>
varsGenMes == <<df, meses_pend, datos_mes, month_start, month_end, bdays>>
varsGenOut == <<facturas_mes, todas_facturas, numero_factura, total_global, hojas, error_gen>>
varsGenPos == <<fila, p_idx>>
varsFragArgs == <<total_qty, min_unit, max_unit, multiple>>
varsFrag == <<remaining, partes>>
varsProg == <<prog, corrida, salida_previa>>
vars == <<varsProg, pc, varsOpt, varsFs, varsGenIn, varsGenMes, varsGenOut, varsGenPos,
          varsFragArgs, varsFrag>>

(***************************************************************************)
(* Program constants.                                                      *)
(***************************************************************************)
MIN_HUEVOS == 300
MAX_HUEVOS == 1500
MULTIPLE_HUEVOS == 150
MIN_VENTA_HUEVOS == 300
MULTIPLO_HUEVOS == 150
NUMERO_INICIAL == 7000
HUEVOS_POR_CUBETA == 30
MARGEN_MIN == 3
MARGEN_MAX == 5

(***************************************************************************)
(* Bounds of the model.                                                    *)
(***************************************************************************)
MaxQty == 1900          \* fragmenter alone: total_qty ranges over -1..MaxQty
AnioBase == 2024        \* first year of the reference dates
MaxAnios == 2           \* years of the reference dates: AnioBase..AnioBase+MaxAnios-1
MaxFilas == 2           \* rows of the stock file
PasoVender == 225       \* huevos_a_vender of a stock row is a multiple of PasoVender
MaxPasosVender == 2     \* ... up to MaxPasosVender * PasoVender
MaxFacturas == 2        \* most invoices a stock file of several rows can produce
MaxRegistros == 2       \* rows of the base file
PasoCantidad == 50      \* the cantidad of a row is a multiple of PasoCantidad
MaxPasos == 6           \* ... up to MaxPasos * PasoCantidad
MaxQtyParam == 6        \* fragmenter with free parameters: total_qty in -1..MaxQtyParam
MaxUnidad == 4          \* ... min_unit and max_unit in -1..MaxUnidad
MaxMultiplo == 3        \* ... multiple in 1..MaxMultiplo

(***************************************************************************)
(* Arithmetic helpers.                                                     *)
(***************************************************************************)
Min2(a, b) == IF a <= b THEN a ELSE b
Max2(a, b) == IF a >= b THEN a ELSE b

\* Python's round(n / d) for integers n and d > 0: nearest integer, ties to even.
RoundDiv(n, d) ==
    LET q == n \div d
        r == n % d
    IN  IF 2 * r < d THEN q
        ELSE IF 2 * r > d THEN q + 1
        ELSE IF q % 2 = 0 THEN q ELSE q + 1

RECURSIVE SumSeq(_)
SumSeq(s) == IF s = <<>> THEN 0 ELSE Head(s) + SumSeq(Tail(s))

(***************************************************************************)
(* Calendar: datetime / pandas date arithmetic.                            *)
(***************************************************************************)
EsBisiesto(y) == (y % 4 = 0 /\ y % 100 # 0) \/ y % 400 = 0

DiasDelMes(y, m) ==
    IF m = 2 THEN (IF EsBisiesto(y) THEN 29 ELSE 28)
    ELSE IF m \in {4, 6, 9, 11} THEN 30 ELSE 31

Fecha(y, m, d) == [y |-> y, m |-> m, d |-> d]

\* date + Timedelta(days=1)
DiaSiguiente(f) ==
    IF f.d < DiasDelMes(f.y, f.m) THEN Fecha(f.y, f.m, f.d + 1)
    ELSE IF f.m < 12 THEN Fecha(f.y, f.m + 1, 1)
    ELSE Fecha(f.y + 1, 1, 1)

\* date - Timedelta(days=1)
DiaAnterior(f) ==
    IF f.d > 1 THEN Fecha(f.y, f.m, f.d - 1)
    ELSE IF f.m > 1 THEN Fecha(f.y, f.m - 1, DiasDelMes(f.y, f.m - 1))
    ELSE Fecha(f.y - 1, 12, 31)

\* date + Timedelta(days=n), n >= 0
RECURSIVE SumarDias(_, _)
SumarDias(f, n) == IF n = 0 THEN f ELSE SumarDias(DiaSiguiente(f), n - 1)

FechaMenor(a, b) ==
    \/ a.y < b.y
    \/ a.y = b.y /\ a.m < b.m
    \/ a.y = b.y /\ a.m = b.m /\ a.d < b.d

RECURSIVE DiasAntesDelMes(_, _)
DiasAntesDelMes(y, m) == IF m = 1 THEN 0 ELSE DiasDelMes(y, m - 1) + DiasAntesDelMes(y, m - 1)

\* date.toordinal()
Ordinal(f) ==
    LET a == f.y - 1
    IN  a * 365 + a \div 4 - a \div 100 + a \div 400 + DiasAntesDelMes(f.y, f.m) + f.d

\* date.weekday(): Monday is 0, Sunday is 6
Weekday(f) == (Ordinal(f) + 6) % 7

(***************************************************************************)
(* fragmentar_cantidad_en_facturas                                         *)
(***************************************************************************)
Tiers == {"grande", "medio", "pequeno"}

\* min where the code has max
to_multiple_min(x, mult) == Min2(mult, (x \div mult) * mult)

to_multiple(x, mult) == Max2(mult, (x \div mult) * mult)

\* int(n / 2): the quotient truncated toward zero
IntMitad(n) == IF n >= 0 THEN n \div 2 ELSE -((-n) \div 2)

\* candidate chosen by the random tier r: r < 0.3, r < 0.8, otherwise
Candidate(tier, rem, mn, mx) ==
    IF tier = "grande" THEN Min2(rem, mx)
    ELSE IF tier = "medio" THEN Min2(rem, IntMitad(mn + mx))
    ELSE Min2(rem, mn)

\* lines 32-36: partes = [], remaining = int(total_qty), early return
FragEntrar ==
    /\ pc = "frag_call"
    /\ partes' = <<>>
    /\ remaining' = total_qty
    /\ pc' = IF total_qty <= 0 THEN "frag_ret" ELSE "frag_loop"
    /\ UNCHANGED <<varsProg, varsOpt, varsFs, varsGenIn, varsGenMes, varsGenOut, varsGenPos,
                   varsFragArgs>>

\* the break on a candidate reduced to zero (line 59-60) is left out
FragIterarSinCorte ==
    /\ pc = "frag_loop"
    /\ remaining >= min_unit
    /\ \E tier \in Tiers :
          LET c1 == to_multiple(Candidate(tier, remaining, min_unit, max_unit), multiple)
              c2 == IF c1 > remaining THEN (remaining \div multiple) * multiple ELSE c1
          IN  IF c1 = 0
              THEN /\ pc' = "frag_fin"
                   /\ UNCHANGED varsFrag
              ELSE /\ partes' = Append(partes, c2)
                   /\ remaining' = remaining - c2
                   /\ pc' = "frag_loop"
    /\ UNCHANGED <<varsProg, varsOpt, varsFs, varsGenIn, varsGenMes, varsGenOut, varsGenPos,
                   varsFragArgs>>

\* the loop runs while remaining > 0 instead of while remaining >= min_unit
FragIterarSinMinimo ==
    /\ pc = "frag_loop"
    /\ remaining > 0
    /\ \E tier \in Tiers :
          LET c1 == to_multiple(Candidate(tier, remaining, min_unit, max_unit), multiple)
              c2 == IF c1 > remaining THEN (remaining \div multiple) * multiple ELSE c1
          IN  IF c1 = 0 \/ c2 = 0
              THEN /\ pc' = "frag_fin"
                   /\ UNCHANGED varsFrag
              ELSE /\ partes' = Append(partes, c2)
                   /\ remaining' = remaining - c2
                   /\ pc' = "frag_loop"
    /\ UNCHANGED <<varsProg, varsOpt, varsFs, varsGenIn, varsGenMes, varsGenOut, varsGenPos,
                   varsFragArgs>>

\* lines 43-62: one iteration of the while loop
FragIterar ==
    /\ pc = "frag_loop"
    /\ remaining >= min_unit
    /\ \E tier \in Tiers :
          LET c1 == to_multiple(Candidate(tier, remaining, min_unit, max_unit), multiple)
              c2 == IF c1 > remaining THEN (remaining \div multiple) * multiple ELSE c1
          IN  IF c1 = 0 \/ c2 = 0
              THEN /\ pc' = "frag_fin"
                   /\ UNCHANGED varsFrag
              ELSE /\ partes' = Append(partes, c2)
                   /\ remaining' = remaining - c2
                   /\ pc' = "frag_loop"
    /\ UNCHANGED <<varsProg, varsOpt, varsFs, varsGenIn, varsGenMes, varsGenOut, varsGenPos,
                   varsFragArgs>>

\* the remainder is dropped instead of appended
FragTerminarSinResto ==
    /\ IF pc = "frag_fin" THEN TRUE ELSE pc = "frag_loop" /\ remaining < min_unit
    /\ pc' = "frag_ret"
    /\ UNCHANGED <<partes, remaining, varsProg, varsOpt, varsFs, varsGenIn, varsGenMes,
                   varsGenOut, varsGenPos, varsFragArgs>>

\* lines 65-69: the loop is over (condition false, or break); append the remainder
FragTerminar ==
    /\ IF pc = "frag_fin" THEN TRUE ELSE pc = "frag_loop" /\ remaining < min_unit
    /\ partes' = IF remaining > 0 THEN Append(partes, remaining) ELSE partes
    /\ pc' = "frag_ret"
    /\ UNCHANGED <<remaining, varsProg, varsOpt, varsFs, varsGenIn, varsGenMes, varsGenOut,
                   varsGenPos, varsFragArgs>>

NextFrag == FragEntrar \/ FragIterar \/ FragTerminar

NoOpt ==
    /\ existe_base = FALSE /\ columnas_base = {} /\ registros = <<>>
    /\ has_pulp = FALSE /\ df_group = <<>> /\ target_sales = 0
    /\ resultado_opt = "ninguno"

NoFecha == [y |-> 0, m |-> 0, d |-> 0]

\* the first run: no run came before
PrimeraCorrida == corrida = 1 /\ salida_previa = <<>>

NoGen ==
    /\ existe_stock = FALSE /\ columnas_stock = {} /\ stock = <<>>
    /\ df = <<>> /\ meses_pend = <<>> /\ datos_mes = [mes |-> "", filas |-> <<>>]
    /\ month_start = NoFecha /\ month_end = NoFecha /\ bdays = <<>>
    /\ facturas_mes = <<>> /\ todas_facturas = <<>> /\ numero_factura = 0
    /\ total_global = 0 /\ hojas = <<>> /\ error_gen = "ninguno"
    /\ fila = 0 /\ p_idx = 0

NoFrag ==
    /\ total_qty = 0 /\ min_unit = MIN_HUEVOS /\ max_unit = MAX_HUEVOS
    /\ multiple = MULTIPLE_HUEVOS /\ remaining = 0 /\ partes = <<>>

\* a direct call fragmentar_cantidad_en_facturas(q) with the default arguments
InitFrag ==
    /\ prog = "frag" /\ pc = "frag_call"
    /\ PrimeraCorrida
    /\ NoOpt /\ NoGen
    /\ archivos = {} /\ carpeta_creada = FALSE
    /\ total_qty \in -1..MaxQty
    /\ min_unit = MIN_HUEVOS /\ max_unit = MAX_HUEVOS /\ multiple = MULTIPLE_HUEVOS
    /\ remaining = 0 /\ partes = <<>>

SpecFrag == InitFrag /\ [][NextFrag]_vars

\* a direct call with arguments of the caller's choice, multiple >= 1
InitFragParam ==
    /\ prog = "frag" /\ pc = "frag_call"
    /\ PrimeraCorrida
    /\ NoOpt /\ NoGen
    /\ archivos = {} /\ carpeta_creada = FALSE
    /\ total_qty \in -1..MaxQtyParam
    /\ min_unit \in -1..MaxUnidad /\ max_unit \in -1..MaxUnidad
    /\ multiple \in 1..MaxMultiplo
    /\ remaining = 0 /\ partes = <<>>

\* the function is sequential code: a call that can take a step takes it
SpecFragFair == InitFragParam /\ [][NextFrag]_vars /\ WF_vars(NextFrag)

(***************************************************************************)
(* optimizar_stock                                                         *)
(***************************************************************************)
EXCLUIR_NITS == {"79389881"}
EXCLUIR_PRODUCTOS == {"HUEVO QUEBRADO"}

\* nit_proveedor is not asked for
ColumnasRequeridasSinNit == {"tipo", "cantidad", "valor unitario"}

ColumnasRequeridasBase == {"tipo", "cantidad", "valor unitario", "nit_proveedor"}

\* c.strip().lower() on the column names that occur in the model
StripLower(c) ==
    CASE c \in {"tipo", "Tipo", " TIPO "} -> "tipo"
      [] c \in {"cantidad", "Cantidad "} -> "cantidad"
      [] c \in {"valor unitario", "Valor Unitario"} -> "valor unitario"
      [] c \in {"nit_proveedor", "NIT_Proveedor"} -> "nit_proveedor"
      [] c \in {"proveedor", "Proveedor"} -> "proveedor"
      [] c \in {"id", "ID"} -> "id"
      [] c \in {"huevos_disponibles", "Huevos_Disponibles"} -> "huevos_disponibles"
      [] c \in {"huevos_a_vender", " huevos_a_vender"} -> "huevos_a_vender"
      [] c \in {"_fecha_dt", "_FECHA_DT"} -> "_fecha_dt"
      [] OTHER -> c

\* str.upper() on the product names that occur in the model
Upper(t) ==
    CASE t \in {"Huevo Quebrado", "HUEVO QUEBRADO"} -> "HUEVO QUEBRADO"
      [] t \in {"Huevo AA", "HUEVO AA"} -> "HUEVO AA"
      [] OTHER -> t

\* order of the product names as strings (groupby sorts its keys)
TipoOrden(t) ==
    CASE t = "HUEVO AA" -> 1
      [] t = "HUEVO QUEBRADO" -> 2
      [] t = "Huevo AA" -> 3
      [] t = "Huevo Quebrado" -> 4
      [] OTHER -> 5

\* the filter on nit_proveedor is left out
RECURSIVE FiltrarSoloProductos(_)
FiltrarSoloProductos(rs) ==
    IF rs = <<>> THEN <<>>
    ELSE LET r == Head(rs)
             queda == Upper(r.tipo) \notin EXCLUIR_PRODUCTOS
         IN  (IF queda THEN <<r>> ELSE <<>>) \o FiltrarSoloProductos(Tail(rs))

\* lines 56-57: rows that survive both exclusion filters, in file order
RECURSIVE Filtrar(_)
Filtrar(rs) ==
    IF rs = <<>> THEN <<>>
    ELSE LET r == Head(rs)
             queda == /\ Upper(r.tipo) \notin EXCLUIR_PRODUCTOS
                      /\ r.nit \notin EXCLUIR_NITS
         IN  (IF queda THEN <<r>> ELSE <<>>) \o Filtrar(Tail(rs))

ClaveMenor(a, b) ==
    \/ TipoOrden(a[1]) < TipoOrden(b[1])
    \/ a[1] = b[1] /\ a[2] < b[2]

RECURSIVE SumaCantidad(_, _)
SumaCantidad(rs, k) ==
    IF rs = <<>> THEN 0
    ELSE (IF <<Head(rs).tipo, Head(rs).valor>> = k THEN Head(rs).cantidad ELSE 0)
         + SumaCantidad(Tail(rs), k)

\* line 64-65: groupby(["tipo", "valor unitario"])["cantidad"].sum(), keys sorted
RECURSIVE Agrupar(_, _)
Agrupar(rs, claves) ==
    IF claves = {} THEN <<>>
    ELSE LET k == CHOOSE a \in claves : \A b \in claves \ {a} : ClaveMenor(a, b)
         IN  <<[tipo |-> k[1], valor |-> k[2],
                huevos_disponibles |-> SumaCantidad(rs, k),
                huevos_a_vender |-> 0]>>
             \o Agrupar(rs, claves \ {k})

Claves(rs) == {<<rs[i].tipo, rs[i].valor>> : i \in 1..Len(rs)}

RECURSIVE SumaDisponibles(_)
SumaDisponibles(g) ==
    IF g = <<>> THEN 0 ELSE Head(g).huevos_disponibles + SumaDisponibles(Tail(g))

RECURSIVE SumaAVender(_)
SumaAVender(g) ==
    IF g = <<>> THEN 0 ELSE Head(g).huevos_a_vender + SumaAVender(Tail(g))

\* lines 39-75: read, validate, filter, group
OptLeer ==
    /\ prog = "opt" /\ pc = "opt_inicio"
    /\ IF ~existe_base
       THEN /\ resultado_opt' = "None" /\ pc' = "opt_fin"
            /\ UNCHANGED <<columnas_base, registros, df_group, target_sales>>
       ELSE LET cols == {StripLower(c) : c \in columnas_base}
                filtrado == Filtrar(registros)
                grupos == Agrupar(filtrado, Claves(filtrado))
            IN  /\ columnas_base' = cols
                /\ IF ~(ColumnasRequeridasBase \subseteq cols)
                   THEN /\ resultado_opt' = "None" /\ pc' = "opt_fin"
                        /\ UNCHANGED <<registros, df_group, target_sales>>
                   ELSE /\ UNCHANGED registros
                        /\ IF filtrado = <<>>
                           THEN /\ resultado_opt' = "None" /\ pc' = "opt_fin"
                                /\ UNCHANGED <<df_group, target_sales>>
                           ELSE /\ df_group' = grupos
                                /\ target_sales' = SumaDisponibles(grupos)
                                /\ pc' = "opt_optimizar"
                                /\ UNCHANGED resultado_opt
    /\ UNCHANGED <<varsProg, existe_base, has_pulp, varsFs, varsGenIn, varsGenMes, varsGenOut,
                   varsGenPos, varsFragArgs, varsFrag>>

\* the model is solved as a minimisation
SolucionPuLPMinimiza(disp, valor) ==
    IF valor > 0 THEN {0}
    ELSE IF valor < 0 THEN {disp}
    ELSE 0..disp

\* lines 85-97: an optimal solution of the integer program.  The single constraint
\* sum(x) <= target_sales is implied by the bounds x_i <= huevos_disponibles_i because
\* target_sales is their sum, so the optimum is reached variable by variable.
SolucionPuLP(disp, valor) ==
    IF valor > 0 THEN {disp}
    ELSE IF valor < 0 THEN {0}
    ELSE 0..disp

\* lines 102-108: max(MIN_VENTA_HUEVOS, int(round(x * u))) for some u in [0.97, 1.03]
SolucionHeuristica(disp) ==
    {Max2(MIN_VENTA_HUEVOS, r) : r \in RoundDiv(97 * disp, 100)..RoundDiv(103 * disp, 100)}

\* lines 111-113: int(MULTIPLO_HUEVOS * round(x / MULTIPLO_HUEVOS))
Ajustar(x) == MULTIPLO_HUEVOS * RoundDiv(x, MULTIPLO_HUEVOS)

\* the cap is left out
EvitarSobreventaNo(x, disp) == x

\* np.maximum where the code has np.minimum
EvitarSobreventaMax(x, disp) == Max2(x, disp)

\* line 116: np.minimum(huevos_a_vender, huevos_disponibles)
EvitarSobreventa(x, disp) == Min2(x, disp)

\* every vector with its i-th element in conj[i]
RECURSIVE Vectores(_)
Vectores(conj) ==
    IF conj = <<>> THEN {<<>>}
    ELSE {<<x>> \o t : x \in Head(conj), t \in Vectores(Tail(conj))}

\* lines 80-116: solve (PuLP or heuristic), snap to multiples, cap at the available
OptOptimizar ==
    /\ prog = "opt" /\ pc = "opt_optimizar"
    /\ LET n == Len(df_group)
           posibles == [i \in 1..n |->
                          IF has_pulp
                          THEN SolucionPuLP(df_group[i].huevos_disponibles, df_group[i].valor)
                          ELSE SolucionHeuristica(df_group[i].huevos_disponibles)]
           finales == [i \in 1..n |->
                          {EvitarSobreventa(Ajustar(x), df_group[i].huevos_disponibles) :
                              x \in posibles[i]}]
       IN  \E v \in Vectores(finales) :
              df_group' = [i \in 1..n |-> [df_group[i] EXCEPT !.huevos_a_vender = v[i]]]
    /\ pc' = "opt_exportar"
    /\ UNCHANGED <<varsProg, existe_base, columnas_base, registros, has_pulp, target_sales,
                   resultado_opt, varsFs, varsGenIn, varsGenMes, varsGenOut, varsGenPos,
                   varsFragArgs, varsFrag>>

\* pd.Timestamp.now().normalize(): the day of the run
FechasHoy == {Fecha(AnioBase, 2, 15), Fecha(AnioBase, 11, 1)}

\* lines 121-146: add id and _fecha_dt, write the file (the write may fail)
OptExportar ==
    /\ prog = "opt" /\ pc = "opt_exportar"
    /\ carpeta_creada' = TRUE
    /\ \E hoy \in FechasHoy, escrito \in BOOLEAN :
          LET df_final == [i \in 1..Len(df_group) |->
                             [id |-> i,
                              tipo |-> df_group[i].tipo,
                              valor |-> df_group[i].valor,
                              huevos_disponibles |-> df_group[i].huevos_disponibles,
                              huevos_a_vender |-> df_group[i].huevos_a_vender,
                              fecha |-> hoy]]
          IN  IF escrito
              THEN /\ archivos' = archivos \cup
                                    {[nombre |-> "stock_optimizado", filas |-> df_final]}
                   /\ resultado_opt' = "stock_optimizado"
              ELSE /\ archivos' = archivos
                   /\ resultado_opt' = "None"
    /\ pc' = "opt_fin"
    /\ UNCHANGED <<varsProg, existe_base, columnas_base, registros, has_pulp, df_group,
                   target_sales, varsGenIn, varsGenMes, varsGenOut, varsGenPos,
                   varsFragArgs, varsFrag>>

NextOpt == OptLeer \/ OptOptimizar \/ OptExportar

Cantidades == {k * PasoCantidad : k \in 0..MaxPasos}
PreciosBase == {0, 250000}
TiposBase == {"HUEVO AA", "Huevo Quebrado"}
NitsBase == {"900123456", "79389881"}
RegistrosPosibles ==
    [tipo : TiposBase, cantidad : Cantidades, valor : PreciosBase, nit : NitsBase]
\* one group with 1000 eggs available at a unit price of 500
RegistroMil == [tipo |-> "HUEVO AA", cantidad |-> 1000, valor |-> 500000, nit |-> "900123456"]
TablasBase == UNION {[1..n -> RegistrosPosibles] : n \in 0..MaxRegistros} \cup {<<RegistroMil>>}
ColumnasBaseCrudas == {"Tipo", "Cantidad ", "Valor Unitario", "NIT_Proveedor", "Proveedor"}

InitOpt ==
    /\ prog = "opt" /\ pc = "opt_inicio"
    /\ PrimeraCorrida
    /\ NoGen /\ NoFrag
    /\ archivos = {} /\ carpeta_creada = FALSE
    /\ df_group = <<>> /\ target_sales = 0 /\ resultado_opt = "ninguno"
    /\ has_pulp \in BOOLEAN
    /\ \/ /\ existe_base = TRUE
          /\ columnas_base = ColumnasRequeridasBase
          /\ registros \in TablasBase
       \/ /\ existe_base = TRUE
          /\ columnas_base = ColumnasBaseCrudas
          /\ registros \in {t \in TablasBase : Len(t) <= 1}
       \/ /\ existe_base = FALSE
          /\ columnas_base = {}
          /\ registros = <<>>
       \/ /\ existe_base = TRUE
          /\ columnas_base \in {ColumnasRequeridasBase \ {c} : c \in ColumnasRequeridasBase}
          /\ registros \in [1..1 -> RegistrosPosibles]

SpecOpt == InitOpt /\ [][NextOpt]_vars

(***************************************************************************)
(* generar_facturas_desde_optimo                                           *)
(***************************************************************************)
ColumnasRequeridasStock ==
    {"id", "tipo", "valor unitario", "huevos_disponibles", "huevos_a_vender", "_fecha_dt"}

\* a cell of the file: a number, or text
Celda(n) == [num |-> TRUE, v |-> n]
CeldaTexto == [num |-> FALSE, v |-> 0]

\* pd.to_numeric(errors='coerce').fillna(0): text becomes 0
ANumero(c) == IF c.num THEN c.v ELSE 0

\* round(x, 2) of an amount in thousandths: nearest hundredth, ties to even
Round2(x) == 10 * RoundDiv(x, 10)

\* dt.month_name()
MonthName(m) ==
    CASE m = 1 -> "January" [] m = 2 -> "February" [] m = 3 -> "March"
      [] m = 4 -> "April" [] m = 5 -> "May" [] m = 6 -> "June"
      [] m = 7 -> "July" [] m = 8 -> "August" [] m = 9 -> "September"
      [] m = 10 -> "October" [] m = 11 -> "November" [] m = 12 -> "December"

\* position of a month name among the twelve, as strings (groupby sorts its keys)
NombreOrden(nombre) ==
    CASE nombre = "April" -> 1 [] nombre = "August" -> 2 [] nombre = "December" -> 3
      [] nombre = "February" -> 4 [] nombre = "January" -> 5 [] nombre = "July" -> 6
      [] nombre = "June" -> 7 [] nombre = "March" -> 8 [] nombre = "May" -> 9
      [] nombre = "November" -> 10 [] nombre = "October" -> 11 [] nombre = "September" -> 12

RECURSIVE FilasDelMes(_, _)
FilasDelMes(t, nombre) ==
    IF t = <<>> THEN <<>>
    ELSE (IF Head(t).mes = nombre THEN <<Head(t)>> ELSE <<>>) \o FilasDelMes(Tail(t), nombre)

\* line 104: df.groupby('mes'): one group per month name, in the order of the names
RECURSIVE GruposPorMes(_, _)
GruposPorMes(t, nombres) ==
    IF nombres = {} THEN <<>>
    ELSE LET n == CHOOSE a \in nombres : \A b \in nombres : NombreOrden(a) <= NombreOrden(b)
         IN  <<[mes |-> n, filas |-> FilasDelMes(t, n)]>> \o GruposPorMes(t, nombres \ {n})

\* lines 75-102: check the file, read it, convert the columns, open the writer
GenLeer ==
    /\ prog = "gen" /\ pc = "gen_inicio"
    /\ IF ~existe_stock
       THEN /\ error_gen' = "FileNotFoundError" /\ pc' = "gen_fin"
            /\ UNCHANGED <<columnas_stock, df, meses_pend, carpeta_creada, total_global,
                           todas_facturas>>
       ELSE LET cols == {StripLower(c) : c \in columnas_stock}
                conv == [i \in 1..Len(stock) |->
                         [id |-> stock[i].id,
                          tipo |-> stock[i].tipo,
                          valor |-> ANumero(stock[i].valor),
                          huevos_disponibles |-> ANumero(stock[i].huevos_disponibles),
                          huevos_a_vender |-> ANumero(stock[i].huevos_a_vender),
                          fecha |-> stock[i].fecha,
                          mes |-> MonthName(stock[i].fecha.m)]]
            IN  /\ columnas_stock' = cols
                /\ IF ~(ColumnasRequeridasStock \subseteq cols)
                   THEN /\ error_gen' = "ValueError" /\ pc' = "gen_fin"
                        /\ UNCHANGED <<df, meses_pend, carpeta_creada, total_global,
                                       todas_facturas>>
                   ELSE /\ df' = conv
                        /\ meses_pend' = GruposPorMes(conv, {conv[i].mes : i \in 1..Len(conv)})
                        /\ carpeta_creada' = TRUE
                        /\ total_global' = 0
                        /\ todas_facturas' = <<>>
                        /\ pc' = "gen_mes"
                        /\ UNCHANGED error_gen
    /\ UNCHANGED <<varsProg, varsOpt, archivos, existe_stock, stock, datos_mes, month_start,
                   month_end, bdays, facturas_mes, numero_factura, hojas, varsGenPos,
                   varsFragArgs, varsFrag>>

RECURSIVE FechaMinima(_)
FechaMinima(filas) ==
    IF Len(filas) = 1 THEN filas[1].fecha
    ELSE LET r == FechaMinima(Tail(filas))
         IN  IF FechaMenor(filas[1].fecha, r) THEN filas[1].fecha ELSE r

\* line 108: fecha_inicio.replace(day=1)
MonthStart(f) == Fecha(f.y, f.m, 1)

\* lines 109-110: ((month_start + 32 days).replace(day=1)) - 1 day
MonthEnd(ms) ==
    LET mas32 == SumarDias(ms, 32)
        next_month == Fecha(mas32.y, mas32.m, 1)
    IN  DiaAnterior(next_month)

\* pd.date_range: every day from start to end, weekends included
RECURSIVE DateRange(_, _)
DateRange(start, end) ==
    IF FechaMenor(end, start) THEN <<>> ELSE <<start>> \o DateRange(DiaSiguiente(start), end)

\* line 113: pd.bdate_range(start, end): the Monday-Friday days from start to end
RECURSIVE BDateRange(_, _)
BDateRange(start, end) ==
    IF FechaMenor(end, start) THEN <<>>
    ELSE (IF Weekday(start) < 5 THEN <<start>> ELSE <<>>)
         \o BDateRange(DiaSiguiente(start), end)

\* lines 115-120: weight 3 on Tuesday and Friday, 1 on the other days
DayWeight(d) == IF Weekday(d) \in {1, 4} THEN 3 ELSE 1

\* lines 104-126: start of one iteration of "for mes, datos_mes in df.groupby('mes')"
GenIniciarMes ==
    /\ prog = "gen" /\ pc = "gen_mes"
    /\ meses_pend # <<>>
    /\ LET grupo == Head(meses_pend)
           ms == MonthStart(FechaMinima(grupo.filas))
       IN  /\ datos_mes' = grupo
           /\ month_start' = ms
           /\ month_end' = MonthEnd(ms)
           /\ bdays' = BDateRange(ms, MonthEnd(ms))
    /\ meses_pend' = Tail(meses_pend)
    /\ df' = df
    /\ facturas_mes' = <<>>
    /\ numero_factura' = NUMERO_INICIAL
    /\ fila' = 1
    /\ pc' = "gen_fila"
    /\ UNCHANGED <<varsProg, varsOpt, varsFs, varsGenIn, todas_facturas, total_global, hojas,
                   error_gen, p_idx, varsFragArgs, varsFrag>>

\* lines 129-136: next row of datos_mes: skip it, or call the fragmenter
GenFila ==
    /\ prog = "gen" /\ pc = "gen_fila"
    /\ fila <= Len(datos_mes.filas)
    /\ LET qty_total == datos_mes.filas[fila].huevos_a_vender
       IN  IF qty_total <= 0
           THEN /\ fila' = fila + 1
                /\ pc' = "gen_fila"
                /\ UNCHANGED <<p_idx, varsFragArgs>>
           ELSE /\ total_qty' = qty_total
                /\ min_unit' = MIN_HUEVOS
                /\ max_unit' = MAX_HUEVOS
                /\ multiple' = MULTIPLE_HUEVOS
                /\ p_idx' = 1
                /\ pc' = "frag_call"
                /\ UNCHANGED fila
    /\ UNCHANGED <<varsProg, varsOpt, varsFs, varsGenIn, varsGenMes, varsGenOut, varsFrag>>

\* line 141: the days np.random.choice can return are those of positive weight; the
\* model draws the first and the last of them
DiasSorteables(bd) ==
    {i \in 1..Len(bd) : DayWeight(bd[i]) > 0 /\ (i = 1 \/ i = Len(bd))}

\* strftime('%d/%m/%Y')
FechaTexto(f) == <<f.d, f.m, f.y>>

\* the eggs sold are derived from the whole packs
FacturaPorCubetas(row, p, dia, margen, numero) ==
    LET precio_base == row.valor
        precio_venta_huevo == precio_base + margen * 1000
        cubetas == p \div HUEVOS_POR_CUBETA
        valor_total == cubetas * HUEVOS_POR_CUBETA * precio_venta_huevo
    IN  [Fecha |-> FechaTexto(dia),
         N_factura |-> numero,
         Tipo |-> row.tipo,
         Precio_base |-> Round2(precio_base),
         Huevos_vendidos |-> cubetas * HUEVOS_POR_CUBETA,
         Cubetas_vendidas |-> cubetas,
         Precio_venta_huevo |-> Round2(precio_venta_huevo),
         Precio_venta_cubeta |-> Round2(precio_venta_huevo * HUEVOS_POR_CUBETA),
         Valor_total |-> Round2(valor_total),
         ID_Stock |-> row.id]

\* 'Huevos vendidos' takes the quantity of the row instead of the chunk
FacturaHuevosDeFila(row, p, dia, margen, numero) ==
    LET precio_base == row.valor
        precio_venta_huevo == precio_base + margen * 1000
        valor_total == p * precio_venta_huevo
    IN  [Fecha |-> FechaTexto(dia),
         N_factura |-> numero,
         Tipo |-> row.tipo,
         Precio_base |-> Round2(precio_base),
         Huevos_vendidos |-> row.huevos_a_vender,
         Cubetas_vendidas |-> p \div HUEVOS_POR_CUBETA,
         Precio_venta_huevo |-> Round2(precio_venta_huevo),
         Precio_venta_cubeta |-> Round2(precio_venta_huevo * HUEVOS_POR_CUBETA),
         Valor_total |-> Round2(valor_total),
         ID_Stock |-> row.id]

\* the total is computed from the base price, without the margin
FacturaSinMargen(row, p, dia, margen, numero) ==
    LET precio_base == row.valor
        precio_venta_huevo == precio_base + margen * 1000
        valor_total == p * precio_base
    IN  [Fecha |-> FechaTexto(dia),
         N_factura |-> numero,
         Tipo |-> row.tipo,
         Precio_base |-> Round2(precio_base),
         Huevos_vendidos |-> p,
         Cubetas_vendidas |-> p \div HUEVOS_POR_CUBETA,
         Precio_venta_huevo |-> Round2(precio_venta_huevo),
         Precio_venta_cubeta |-> Round2(precio_venta_huevo * HUEVOS_POR_CUBETA),
         Valor_total |-> Round2(valor_total),
         ID_Stock |-> row.id]

\* lines 143-157: the invoice of chunk p of a row, on a day, with a margin
Factura(row, p, dia, margen, numero) ==
    LET precio_base == row.valor
        precio_venta_huevo == precio_base + margen * 1000
        valor_total == p * precio_venta_huevo
    IN  [Fecha |-> FechaTexto(dia),
         N_factura |-> numero,
         Tipo |-> row.tipo,
         Precio_base |-> Round2(precio_base),
         Huevos_vendidos |-> p,
         Cubetas_vendidas |-> p \div HUEVOS_POR_CUBETA,
         Precio_venta_huevo |-> Round2(precio_venta_huevo),
         Precio_venta_cubeta |-> Round2(precio_venta_huevo * HUEVOS_POR_CUBETA),
         Valor_total |-> Round2(valor_total),
         ID_Stock |-> row.id]

\* line 161: the amount added to total_global
ValorSinRedondear(row, p, margen) == p * (row.valor + margen * 1000)

\* the invoice is appended to the list of the month only
GenEmitirSinGlobal ==
    /\ prog = "gen" /\ pc = "frag_ret"
    /\ IF p_idx > Len(partes)
       THEN /\ fila' = fila + 1
            /\ pc' = "gen_fila"
            /\ UNCHANGED <<facturas_mes, todas_facturas, numero_factura, total_global, p_idx>>
       ELSE \E i \in DiasSorteables(bdays), margen \in MARGEN_MIN..MARGEN_MAX :
              LET row == datos_mes.filas[fila]
                  p == partes[p_idx]
                  factura == Factura(row, p, bdays[i], margen, numero_factura)
              IN  /\ facturas_mes' = Append(facturas_mes, factura)
                  /\ todas_facturas' = todas_facturas
                  /\ numero_factura' = numero_factura + 1
                  /\ total_global' = total_global + ValorSinRedondear(row, p, margen)
                  /\ p_idx' = p_idx + 1
                  /\ UNCHANGED <<fila, pc>>
    /\ UNCHANGED <<varsProg, varsOpt, varsFs, varsGenIn, varsGenMes, hojas, error_gen,
                   varsFragArgs, varsFrag>>

\* lines 138-161: one iteration of "for p in partes", after the fragmenter returned
GenEmitir ==
    /\ prog = "gen" /\ pc = "frag_ret"
    /\ IF p_idx > Len(partes)
       THEN /\ fila' = fila + 1
            /\ pc' = "gen_fila"
            /\ UNCHANGED <<facturas_mes, todas_facturas, numero_factura, total_global, p_idx>>
       ELSE \E i \in DiasSorteables(bdays), margen \in MARGEN_MIN..MARGEN_MAX :
              LET row == datos_mes.filas[fila]
                  p == partes[p_idx]
                  factura == Factura(row, p, bdays[i], margen, numero_factura)
              IN  /\ facturas_mes' = Append(facturas_mes, factura)
                  /\ todas_facturas' = Append(todas_facturas, factura)
                  /\ numero_factura' = numero_factura + 1
                  /\ total_global' = total_global + ValorSinRedondear(row, p, margen)
                  /\ p_idx' = p_idx + 1
                  /\ UNCHANGED <<fila, pc>>
    /\ UNCHANGED <<varsProg, varsOpt, varsFs, varsGenIn, varsGenMes, hojas, error_gen,
                   varsFragArgs, varsFrag>>

\* 'dd/mm/YYYY' strings compare as (dd, mm, YYYY)
TextoMenorIgual(a, b) ==
    \/ a[1] < b[1]
    \/ a[1] = b[1] /\ a[2] < b[2]
    \/ a[1] = b[1] /\ a[2] = b[2] /\ a[3] <= b[3]

\* line 166: sort_values('Fecha'): the rows in the order of their Fecha strings.  The
\* default sort is not stable, so the order among rows of equal Fecha is not
\* determined: the sheet is the sequence of the sets of rows of equal Fecha
RECURSIVE Ordenadas(_)
Ordenadas(fs) ==
    IF fs = {} THEN <<>>
    ELSE LET f == CHOOSE a \in fs : \A b \in fs : TextoMenorIgual(a.Fecha, b.Fecha)
             iguales == {b \in fs : b.Fecha = f.Fecha}
         IN  <<iguales>> \o Ordenadas(fs \ iguales)

\* lines 164-168: all rows of the month are done: write the sheet of the month
GenEscribirHoja ==
    /\ prog = "gen" /\ pc = "gen_fila"
    /\ fila > Len(datos_mes.filas)
    /\ LET df_out == Ordenadas({facturas_mes[i] : i \in 1..Len(facturas_mes)})
       IN  hojas' = IF facturas_mes = <<>> THEN hojas
                    ELSE Append(hojas, [nombre |-> datos_mes.mes, filas |-> df_out])
    /\ pc' = "gen_mes"
    /\ UNCHANGED <<varsProg, varsOpt, varsFs, varsGenIn, varsGenMes, facturas_mes,
                   todas_facturas, numero_factura, total_global, error_gen, varsGenPos,
                   varsFragArgs, varsFrag>>

\* lines 171-178: write the sheet all_facturas, close the writer, return the path
GenCerrar ==
    /\ prog = "gen" /\ pc = "gen_mes"
    /\ meses_pend = <<>>
    /\ LET finales == IF todas_facturas = <<>> THEN hojas
                      ELSE Append(hojas, [nombre |-> "all_facturas", filas |-> todas_facturas])
       IN  /\ hojas' = finales
           /\ archivos' = archivos \cup {[nombre |-> "facturas_generadas", filas |-> finales]}
    /\ pc' = "gen_fin"
    /\ UNCHANGED <<varsProg, varsOpt, carpeta_creada, varsGenIn, varsGenMes, facturas_mes,
                   todas_facturas, numero_factura, total_global, error_gen, varsGenPos,
                   varsFragArgs, varsFrag>>

NextGen ==
    \/ GenLeer \/ GenIniciarMes \/ GenFila \/ GenEmitir \/ GenEscribirHoja \/ GenCerrar
    \/ FragEntrar \/ FragIterar \/ FragTerminar

\* ---- stock files of the model
\* reference date and unit price of a row: two months, the first one in two years
ClasesPar ==
    {[fecha |-> Fecha(AnioBase, 2, 15), valor |-> 250000],
     [fecha |-> Fecha(AnioBase, 3, 1), valor |-> 433333],
     [fecha |-> Fecha(AnioBase + 1, 2, 28), valor |-> 250000]}
VentasPar == {k * PasoVender : k \in 0..MaxPasosVender}

FilaStock(i, vender, valor, fecha) ==
    [id |-> i, tipo |-> "HUEVO AA", valor |-> valor,
     huevos_disponibles |-> vender, huevos_a_vender |-> vender, fecha |-> fecha]

FilaNumerica(i, vender, valor, fecha) == FilaStock(i, Celda(vender), Celda(valor), fecha)

\* most chunks the fragmenter can return for q: always the small tier
MaxPartes(q) ==
    IF q <= 0 THEN 0
    ELSE q \div MIN_HUEVOS + (IF q % MIN_HUEVOS > 0 THEN 1 ELSE 0)

RECURSIVE MaxFacturasDe(_)
MaxFacturasDe(t) ==
    IF t = <<>> THEN 0 ELSE MaxPartes(Head(t).huevos_a_vender) + MaxFacturasDe(Tail(t))

\* files of up to MaxFilas rows, ids 1..n as optimizar_stock writes them
TablasVarias ==
    {t \in UNION {[1..n -> [vender : VentasPar, clase : ClasesPar]] : n \in 1..MaxFilas} :
        MaxFacturasDe([i \in 1..Len(t) |-> [huevos_a_vender |-> t[i].vender]]) <= MaxFacturas}

\* files of one row: every month of the years of the model, other quantities and prices
FechasUna ==
    {Fecha(AnioBase + a, m, d) : a \in 0..(MaxAnios - 1), m \in 1..12, d \in {1, 28}}
TablasUna ==
    {<<FilaNumerica(1, PasoVender, 250000, f)>> : f \in FechasUna}
    \cup {<<FilaStock(1, v, p, Fecha(AnioBase, 2, 15))>> :
            v \in {Celda(-PasoVender), CeldaTexto, Celda(2 * PasoVender)},
            p \in {Celda(0), CeldaTexto, Celda(433333)}}

TablasStock ==
    {[i \in 1..Len(t) |-> FilaNumerica(i, t[i].vender, t[i].clase.valor, t[i].clase.fecha)] :
        t \in TablasVarias}
    \cup TablasUna

ColumnasStockCrudas ==
    {"ID", "Tipo", "Valor Unitario", "Huevos_Disponibles", " huevos_a_vender", "_FECHA_DT"}

InitGen ==
    /\ prog = "gen" /\ pc = "gen_inicio"
    /\ PrimeraCorrida
    /\ NoOpt /\ NoFrag
    /\ archivos = {} /\ carpeta_creada = FALSE
    /\ df = <<>> /\ meses_pend = <<>> /\ datos_mes = [mes |-> "", filas |-> <<>>]
    /\ month_start = NoFecha /\ month_end = NoFecha /\ bdays = <<>>
    /\ facturas_mes = <<>> /\ todas_facturas = <<>> /\ numero_factura = 0
    /\ total_global = 0 /\ hojas = <<>> /\ error_gen = "ninguno"
    /\ fila = 0 /\ p_idx = 0
    /\ \/ /\ existe_stock = TRUE
          /\ columnas_stock \in {ColumnasRequeridasStock, ColumnasStockCrudas}
          /\ stock \in TablasStock
       \/ /\ existe_stock = FALSE
          /\ columnas_stock = {}
          /\ stock = <<>>
       \/ /\ existe_stock = TRUE
          /\ columnas_stock \in {ColumnasRequeridasStock \ {c} : c \in ColumnasRequeridasStock}
          /\ stock = <<FilaNumerica(1, PasoVender, 250000, Fecha(AnioBase, 2, 15))>>

SpecGen == InitGen /\ [][NextGen]_vars

\* line 71: generar_facturas_desde_optimo is called again on the same stock file, after
\* the first call returned or raised.  Nothing of the first call is kept but its output
\* file; random, np.random and the file are as any call finds them.
GenRepetir ==
    /\ prog = "gen" /\ pc = "gen_fin" /\ corrida = 1
    /\ corrida' = corrida + 1
    /\ salida_previa' = <<[hojas |-> hojas, error |-> error_gen]>>
    /\ pc' = "gen_inicio"
    /\ df' = <<>> /\ meses_pend' = <<>> /\ datos_mes' = [mes |-> "", filas |-> <<>>]
    /\ month_start' = NoFecha /\ month_end' = NoFecha /\ bdays' = <<>>
    /\ facturas_mes' = <<>> /\ todas_facturas' = <<>> /\ numero_factura' = 0
    /\ total_global' = 0 /\ hojas' = <<>> /\ error_gen' = "ninguno"
    /\ fila' = 0 /\ p_idx' = 0
    /\ total_qty' = 0 /\ remaining' = 0 /\ partes' = <<>>
    /\ UNCHANGED <<prog, varsOpt, varsFs, varsGenIn, min_unit, max_unit, multiple>>

\* the fragmenter called directly, or the generator calling it
InitFragGen == InitFrag \/ InitGen
SpecFragGen == InitFragGen /\ [][NextGen]_vars

NextDet == NextGen \/ GenRepetir

\* two runs of the generator on one stock file
SpecDet == InitGen /\ [][NextDet]_vars

(***************************************************************************)
(* Both entry points.                                                      *)
(***************************************************************************)
Init == InitOpt \/ InitGen
Next == NextOpt \/ NextGen
Spec == Init /\ [][Next]_vars

(***************************************************************************)
(* Claims about fragmentar_cantidad_en_facturas                            *)
(***************************************************************************)
EnFragmentador == pc \in {"frag_loop", "frag_fin", "frag_ret"}

\* C4: for total_qty > 0 and every sequence of tier draws, at every iteration of the
\* loop the chunks appended so far plus remaining add up to total_qty, and the list
\* returned adds up to total_qty exactly.
C4_SumaExacta ==
    (EnFragmentador /\ total_qty > 0) =>
        /\ pc \in {"frag_loop", "frag_fin"} => SumSeq(partes) + remaining = total_qty
        /\ pc = "frag_ret" => SumSeq(partes) = total_qty

\* a call returned at least three chunks, the last one a remainder
C4_Testigo ==
    /\ pc = "frag_ret" /\ total_qty > 0 /\ Len(partes) >= 3
    /\ partes[Len(partes)] < min_unit
    /\ SumSeq(partes) = total_qty

ChunkValido(q) ==
    /\ q >= MIN_HUEVOS /\ q <= MAX_HUEVOS /\ q % MULTIPLE_HUEVOS = 0

\* C5: with MIN=300, MAX=1500, MULTIPLE=150 every chunk except possibly the last is
\* between 300 and 1500 and a multiple of 150; a chunk below 300 can only be the last
\* element of the returned list and there is at most one such chunk.
C5_ChunksValidos ==
    (EnFragmentador /\ total_qty > 0) =>
        /\ \A i \in 1..Len(partes) :
              (i < Len(partes) \/ pc # "frag_ret") => ChunkValido(partes[i])
        /\ \A i \in 1..Len(partes) : partes[i] < MIN_HUEVOS => i = Len(partes)
        /\ Cardinality({i \in 1..Len(partes) : partes[i] < MIN_HUEVOS}) <= 1

\* a call returned several full chunks followed by a remainder below the minimum
C5_Testigo ==
    /\ pc = "frag_ret" /\ Len(partes) >= 3
    /\ partes[Len(partes)] < MIN_HUEVOS
    /\ partes[Len(partes)] % MULTIPLE_HUEVOS # 0
    /\ \E i \in 1..Len(partes) : partes[i] = MAX_HUEVOS

\* C12: a total_qty that is itself a valid invoice size (between 300 and 1500, a
\* multiple of 150), such as 450, is returned as the single chunk [total_qty], for
\* every tier draw.
C12_UnSoloChunk ==
    (pc = "frag_ret" /\ ChunkValido(total_qty)) => partes = <<total_qty>>

\* C14: for 0 < total_qty < MIN the loop performs no iteration (remaining and partes
\* are untouched until the loop is left, and the loop is never left by a break) and
\* the list returned is exactly [total_qty].
C14_SoloElResto ==
    (EnFragmentador /\ total_qty > 0 /\ total_qty < MIN_HUEVOS) =>
        /\ pc # "frag_fin"
        /\ pc = "frag_loop" => partes = <<>> /\ remaining = total_qty
        /\ pc = "frag_ret" => partes = <<total_qty>>

\* the call with 100 eggs returned the single remainder chunk
C14_Testigo ==
    /\ pc = "frag_ret" /\ prog = "frag" /\ total_qty = 100
    /\ partes = <<100>> /\ remaining = 100

\* C20: fragmentar_cantidad_en_facturas terminates for every integer total_qty and
\* every min_unit, max_unit and multiple >= 1 (min_unit < multiple and min_unit <= 0
\* included): every call returns, an iteration that does not break lowers remaining
\* by at least multiple, and there are at most total_qty / multiple + 1 chunks.
C20_Termina ==
    /\ <>(pc = "frag_ret")
    /\ [][(pc = "frag_loop" /\ pc' = "frag_loop") => remaining' <= remaining - multiple]_vars
    /\ [](Len(partes) <= total_qty \div multiple + 1)

\* a call with min_unit <= 0 returned: its loop can only end by the break, here after
\* two chunks and with a remainder smaller than multiple
C20_Testigo ==
    /\ pc = "frag_ret" /\ prog = "frag" /\ min_unit <= 0
    /\ Len(partes) = 3 /\ remaining > 0 /\ remaining < multiple
    /\ partes[3] = remaining

(***************************************************************************)
(* Claims about optimizar_stock                                            *)
(***************************************************************************)
\* optimizar_stock returned the path of the file it wrote
OptExito == prog = "opt" /\ pc = "opt_fin" /\ resultado_opt = "stock_optimizado"

FilasEscritas == UNION {{a.filas[i] : i \in 1..Len(a.filas)} :
                          a \in {b \in archivos : b.nombre = "stock_optimizado"}}

\* C1: after optimizar_stock finishes successfully, in PuLP mode or in heuristic mode,
\* every stock group has 0 <= huevos_a_vender <= huevos_disponibles (the quantities of
\* the input are non-negative integers).
C1_DentroDeLoDisponible ==
    OptExito =>
        /\ \A i \in 1..Len(df_group) :
              /\ 0 <= df_group[i].huevos_a_vender
              /\ df_group[i].huevos_a_vender <= df_group[i].huevos_disponibles
        /\ \A r \in FilasEscritas :
              0 <= r.huevos_a_vender /\ r.huevos_a_vender <= r.huevos_disponibles

\* PuLP mode: a group was snapped above what it has and capped, next to a group that
\* was snapped down and sells less than it has
C1_Testigo ==
    /\ OptExito /\ has_pulp /\ Len(df_group) = 2
    /\ \E i \in 1..2 :
          /\ df_group[i].huevos_disponibles % MULTIPLO_HUEVOS # 0
          /\ df_group[i].huevos_a_vender = df_group[i].huevos_disponibles
    /\ \E i \in 1..2 :
          /\ df_group[i].huevos_a_vender > 0
          /\ df_group[i].huevos_a_vender < df_group[i].huevos_disponibles

\* C2: after optimizar_stock finishes successfully, the final huevos_a_vender of every
\* stock group, after the snapping and after the cap, is a multiple of 150, whatever
\* the available quantity.
C2_MultiploDe150 ==
    OptExito =>
        \A i \in 1..Len(df_group) : df_group[i].huevos_a_vender % MULTIPLO_HUEVOS = 0

\* C3: after optimizar_stock finishes successfully, target_sales is the sum of
\* huevos_disponibles and the sum of huevos_a_vender over the groups is at most
\* target_sales, in both modes.
C3_NoSuperaElObjetivo ==
    OptExito =>
        /\ target_sales = SumaDisponibles(df_group)
        /\ SumaAVender(df_group) <= target_sales

\* heuristic mode, two groups, both raised to the minimum sale and capped: all is sold
C3_Testigo ==
    /\ OptExito /\ ~has_pulp /\ Len(df_group) = 2
    /\ \A i \in 1..2 : df_group[i].huevos_disponibles \in 1..(MIN_VENTA_HUEVOS - 1)
    /\ SumaAVender(df_group) = target_sales

\* the largest multiple of MULTIPLE that does not exceed n
MultiploInferior(n) == (n \div MULTIPLO_HUEVOS) * MULTIPLO_HUEVOS

\* C13: for the single group with 1000 eggs available at a unit price of 500 the final
\* huevos_a_vender is 900; in general, when the allocation before the snapping equals
\* the available quantity (exact mode, positive price), the final allocation is the
\* largest multiple of 150 that does not exceed the available quantity.
C13_AjusteYTope ==
    OptExito =>
        \A i \in 1..Len(df_group) :
            LET g == df_group[i]
            IN  /\ (Len(df_group) = 1 /\ g.huevos_disponibles = 1000 /\ g.valor = 500000)
                      => g.huevos_a_vender = 900
                /\ (has_pulp /\ g.valor > 0)
                      => g.huevos_a_vender = MultiploInferior(g.huevos_disponibles)

\* total value of an allocation x of the groups g
RECURSIVE ValorDeVenta(_, _)
ValorDeVenta(g, x) ==
    IF g = <<>> THEN 0 ELSE Head(x) * Head(g).valor + ValorDeVenta(Tail(g), Tail(x))

\* the allocations with 0 <= a_i <= available_i, a_i a multiple of 150 and a sum of at
\* most target_sales
Factibles(g, objetivo) ==
    {x \in Vectores([i \in 1..Len(g) |->
                       {a \in 0..g[i].huevos_disponibles : a % MULTIPLO_HUEVOS = 0}]) :
        SumSeq(x) <= objetivo}

\* C15: in exact mode, with target_sales the total available, no allocation with
\* 0 <= a_i <= available_i, sum a_i <= target_sales and a_i a multiple of 150 has a
\* total value greater than that of the final huevos_a_vender.
C15_ValorMaximo ==
    (OptExito /\ has_pulp) =>
        LET final == [i \in 1..Len(df_group) |-> df_group[i].huevos_a_vender]
        IN  \A x \in Factibles(df_group, target_sales) :
                ValorDeVenta(df_group, x) <= ValorDeVenta(df_group, final)

\* exact mode, two groups: the priced one is snapped down to a multiple below its
\* available quantity, which is the best feasible allocation
C15_Testigo ==
    /\ OptExito /\ has_pulp /\ Len(df_group) = 2
    /\ \E i \in 1..2 :
          /\ df_group[i].valor > 0
          /\ df_group[i].huevos_a_vender > 0
          /\ df_group[i].huevos_a_vender < df_group[i].huevos_disponibles
          /\ df_group[i].huevos_a_vender = MultiploInferior(df_group[i].huevos_disponibles)

\* positions of the rows of the base file that no exclusion applies to
NoExcluidos ==
    {i \in 1..Len(registros) :
        /\ Upper(registros[i].tipo) \notin {"HUEVO QUEBRADO"}
        /\ registros[i].nit \notin {"79389881"}}

RECURSIVE CantidadDe(_)
CantidadDe(S) ==
    IF S = {} THEN 0
    ELSE LET i == CHOOSE j \in S : TRUE IN registros[i].cantidad + CantidadDe(S \ {i})

\* the groups have been built
Agrupado == prog = "opt" /\ pc \in {"opt_optimizar", "opt_exportar"}

\* C16: there is exactly one group per distinct (tipo, valor unitario) among the rows
\* that survive the filters, its huevos_disponibles is the sum of the cantidad of those
\* rows, an excluded row (nit in EXCLUIR_NITS or upper-cased tipo in EXCLUIR_PRODUCTOS)
\* is in no group, and the total available is the total cantidad of the other rows.
C16_GruposSinExcluidos ==
    Agrupado =>
        LET pares == {<<registros[i].tipo, registros[i].valor>> : i \in NoExcluidos}
        IN  /\ {<<df_group[k].tipo, df_group[k].valor>> : k \in 1..Len(df_group)} = pares
            /\ Len(df_group) = Cardinality(pares)
            /\ \A k \in 1..Len(df_group) :
                  df_group[k].huevos_disponibles =
                      CantidadDe({i \in NoExcluidos :
                                    /\ registros[i].tipo = df_group[k].tipo
                                    /\ registros[i].valor = df_group[k].valor})
            /\ SumaDisponibles(df_group) = CantidadDe(NoExcluidos)
            /\ target_sales = CantidadDe(NoExcluidos)

\* a file of two rows of the same product and price, one of them of the excluded
\* vendor: the group holds the quantity of the other row only
C16_Testigo ==
    /\ Agrupado /\ Len(registros) = 2 /\ Len(df_group) = 1
    /\ \E i, j \in 1..2 :
          /\ registros[i].nit = "79389881" /\ registros[i].cantidad > 0
          /\ registros[i].tipo = registros[j].tipo /\ registros[i].valor = registros[j].valor
          /\ j \in NoExcluidos /\ registros[j].cantidad > 0
          /\ df_group[1].huevos_disponibles = registros[j].cantidad

(***************************************************************************)
(* Claims about generar_facturas_desde_optimo                              *)
(***************************************************************************)
\* generar_facturas_desde_optimo returned
GenExito == prog = "gen" /\ pc = "gen_fin" /\ error_gen = "ninguno"

Facturas == {todas_facturas[i] : i \in 1..Len(todas_facturas)}

\* C6: within one run the invoice numbers grow in the order of emission, starting at
\* 7000, over all the invoices of the run (the global list), so that no two invoices
\* of the run have the same number, also when the rows are of different months.
C6_NumerosCrecientes ==
    prog = "gen" =>
        /\ todas_facturas # <<>> => todas_facturas[1].N_factura = NUMERO_INICIAL
        /\ \A i, j \in 1..Len(todas_facturas) :
              i < j => todas_facturas[i].N_factura < todas_facturas[j].N_factura

RECURSIVE HuevosDeStock(_, _)
HuevosDeStock(fs, id) ==
    IF fs = <<>> THEN 0
    ELSE (IF Head(fs).ID_Stock = id THEN Head(fs).Huevos_vendidos ELSE 0)
         + HuevosDeStock(Tail(fs), id)

\* C7: after generar_facturas_desde_optimo, for every stock row with huevos_a_vender > 0
\* the 'Huevos vendidos' of the invoices of that row add up to its huevos_a_vender, and
\* a row with huevos_a_vender <= 0 has no invoice.  In every state, the invoices of the
\* row being processed are the chunks emitted so far, one invoice per chunk.
C7_SumaPorFila ==
    /\ GenExito =>
          \A i \in 1..Len(df) :
             IF df[i].huevos_a_vender > 0
             THEN HuevosDeStock(todas_facturas, df[i].id) = df[i].huevos_a_vender
             ELSE \A f \in Facturas : f.ID_Stock # df[i].id
    /\ (prog = "gen" /\ pc = "frag_ret") =>
          LET hechas == p_idx - 1
              n == Len(facturas_mes)
          IN  /\ hechas <= n
              /\ \A k \in 1..hechas :
                    /\ facturas_mes[n - hechas + k].Huevos_vendidos = partes[k]
                    /\ facturas_mes[n - hechas + k].ID_Stock = datos_mes.filas[fila].id

\* a finished run: a row was split in two invoices, another row sells nothing
C7_Testigo ==
    /\ GenExito /\ Len(df) = 2
    /\ \E i, j \in 1..2 :
          /\ df[i].huevos_a_vender > MIN_HUEVOS
          /\ Cardinality({f \in Facturas : f.ID_Stock = df[i].id}) = 2
          /\ df[j].huevos_a_vender <= 0
          /\ {f \in Facturas : f.ID_Stock = df[j].id} = {}

\* the date of an invoice, read back from its text
FechaDe(f) == Fecha(f.Fecha[3], f.Fecha[2], f.Fecha[1])

EnElMes(d, ms) == d.y = ms.y /\ d.m = ms.m /\ d.d >= 1 /\ d.d <= DiasDelMes(ms.y, ms.m)

\* a month group is being processed
EnMes == prog = "gen" /\ pc \in {"gen_fila", "frag_call", "frag_loop", "frag_fin", "frag_ret"}

\* C8: every invoice is dated on a Monday-Friday day between the first and the last day
\* of the month being generated, the month of the earliest reference date of the group;
\* no invoice is dated on a Saturday or a Sunday.  So is every day that can be drawn.
C8_DiaHabilDelMes ==
    /\ \A f \in Facturas : Weekday(FechaDe(f)) < 5
    /\ EnMes =>
          LET inicio == FechaMinima(datos_mes.filas)
          IN  /\ month_start = Fecha(inicio.y, inicio.m, 1)
              /\ month_end = Fecha(inicio.y, inicio.m, DiasDelMes(inicio.y, inicio.m))
              /\ \A i \in 1..Len(bdays) :
                    Weekday(bdays[i]) < 5 /\ EnElMes(bdays[i], month_start)
              /\ \A i \in 1..Len(facturas_mes) :
                    /\ Weekday(FechaDe(facturas_mes[i])) < 5
                    /\ EnElMes(FechaDe(facturas_mes[i]), month_start)
                    /\ \E k \in 1..Len(bdays) : bdays[k] = FechaDe(facturas_mes[i])

\* an invoice on the last business day of a month that ends on a weekend, in a month
\* that also starts on a weekend
C8_Testigo ==
    /\ EnMes /\ facturas_mes # <<>>
    /\ Weekday(month_end) >= 5 /\ Weekday(month_start) >= 5
    /\ FechaDe(facturas_mes[1]) = bdays[Len(bdays)]
    /\ FechaDe(facturas_mes[1]).d < month_end.d

\* the unit price of the stock row of an invoice is a whole number of pesos
PrecioEntero(f) == df[f.ID_Stock].valor % 1000 = 0

C17_FacturaEnRango ==
    prog = "gen" => \A f \in Facturas : ChunkValido(f.Huevos_vendidos)

\* rows of a sheet, and the sheets of the months written so far
FilasDeHoja(h) == UNION {h.filas[k] : k \in 1..Len(h.filas)}
HojasDeMes == SelectSeq(hojas, LAMBDA h : h.nombre # "all_facturas")

\* fs is the lists of the sheets hs one after the other, followed by resto
RECURSIVE Concatenadas(_, _, _)
Concatenadas(hs, fs, resto) ==
    IF hs = <<>> THEN fs = resto
    ELSE LET n == Cardinality(FilasDeHoja(Head(hs)))
         IN  /\ n <= Len(fs)
             /\ {fs[i] : i \in 1..n} = FilasDeHoja(Head(hs))
             /\ Concatenadas(Tail(hs), SubSeq(fs, n + 1, Len(fs)), resto)

\* the amount of an invoice before the rounding of the column: the quantity times the
\* price of its stock row plus its margin
ValorDeFactura(f) ==
    f.Huevos_vendidos * (df[f.ID_Stock].valor + (f.Precio_venta_huevo - f.Precio_base))

RECURSIVE SumaValores(_)
SumaValores(fs) == IF fs = <<>> THEN 0 ELSE ValorDeFactura(Head(fs)) + SumaValores(Tail(fs))

RECURSIVE SumaColumnaTotal(_)
SumaColumnaTotal(fs) ==
    IF fs = <<>> THEN 0 ELSE Head(fs).Valor_total + SumaColumnaTotal(Tail(fs))

Abs(n) == IF n >= 0 THEN n ELSE -n

\* C18: after every emitted invoice, the invoice is exactly once in the list of its
\* month and exactly once in the global list, the global list is the month lists
\* processed so far one after the other (its length is the sum of theirs), and
\* total_global is the sum of the total values of the invoices emitted so far (the
\* values added, of which the column 'Valor Total' is the rounding to cents).
C18_Acumulacion ==
    (prog = "gen" /\ error_gen = "ninguno") =>
        LET abierta == IF EnMes THEN facturas_mes ELSE <<>>
            n == Len(todas_facturas)
        IN  /\ Cardinality(Facturas) = n
            /\ EnMes => Cardinality({facturas_mes[i] : i \in 1..Len(facturas_mes)})
                            = Len(facturas_mes)
            /\ Concatenadas(HojasDeMes, todas_facturas, abierta)
            /\ n = SumSeq([k \in 1..Len(HojasDeMes) |->
                              Cardinality(FilasDeHoja(HojasDeMes[k]))]) + Len(abierta)
            /\ total_global = SumaValores(todas_facturas)
            /\ Abs(total_global - SumaColumnaTotal(todas_facturas)) <= 5 * n

\* the second month is being processed: one invoice in the sheet of the first month,
\* one in the list of the second, both in the global list
C18_Testigo ==
    /\ EnMes /\ Len(HojasDeMes) = 1 /\ Len(facturas_mes) = 1
    /\ Len(todas_facturas) = 2
    /\ todas_facturas[2] = facturas_mes[1]
    /\ todas_facturas[1] \in FilasDeHoja(HojasDeMes[1])
    /\ total_global > 0

\* C19: for every invoice the margin is an integer in {3, 4, 5}, the sale unit price
\* is the base price plus the margin, and the sale pack price is the sale unit price
\* times the pack size 30.
C19_PreciosDeVenta ==
    prog = "gen" =>
        \A f \in Facturas :
            /\ \E margen \in {3, 4, 5} : f.Precio_venta_huevo = f.Precio_base + margen * 1000
            /\ f.Precio_venta_cubeta = f.Precio_venta_huevo * 30

\* C11: two runs on the same input table produce identical output tables: the same
\* chunk sizes, the same assigned days, the same margins and the same invoice
\* numbers (the code takes no seed, so the runs share all that a caller can fix).
C11_MismaSalida ==
    (prog = "gen" /\ pc = "gen_fin" /\ corrida = 2) =>
        /\ hojas = salida_previa[1].hojas
        /\ error_gen = salida_previa[1].error

\* C21: with the configured constants, if total_qty is a positive multiple of 150
\* every chunk, the last included, is a multiple of 150 and the trailing chunk is at
\* least 300 or exactly 150; so every invoice of a stock row whose huevos_a_vender is
\* such a quantity has 'Cubetas vendidas' * 30 = 'Huevos vendidos'.
C21_MultiplosYCubetas ==
    /\ (EnFragmentador /\ total_qty > 0 /\ total_qty % 150 = 0) =>
          /\ \A i \in 1..Len(partes) : partes[i] % 150 = 0
          /\ pc = "frag_ret" =>
                \/ partes[Len(partes)] >= 300
                \/ partes[Len(partes)] = 150
    /\ prog = "gen" =>
          \A f \in Facturas :
              LET q == df[f.ID_Stock].huevos_a_vender
              IN  (q > 0 /\ q % 150 = 0) => f.Cubetas_vendidas * 30 = f.Huevos_vendidos

\* a row of 450 eggs was split in 300 and 150: two invoices of 10 and of 5 packs
C21_Testigo ==
    /\ prog = "gen" /\ pc = "frag_ret" /\ total_qty = 450 /\ partes = <<300, 150>>
    /\ \E f, g \in Facturas :
          /\ f.ID_Stock = g.ID_Stock /\ df[f.ID_Stock].huevos_a_vender = 450
          /\ f.Huevos_vendidos = 300 /\ f.Cubetas_vendidas = 10
          /\ g.Huevos_vendidos = 150 /\ g.Cubetas_vendidas = 5

\* C22: every invoice is dated in the calendar month and year of the _fecha_dt of the
\* stock row it was generated from (its ID_Stock), also when rows have reference dates
\* in the same month of different years.
C22_MesYAnioDeLaFila ==
    prog = "gen" =>
        \A f \in Facturas :
            /\ FechaDe(f).m = df[f.ID_Stock].fecha.m
            /\ FechaDe(f).y = df[f.ID_Stock].fecha.y

(***************************************************************************)
(* Claims about both entry points                                          *)
(***************************************************************************)
\* the base file is missing, lacks a required column, or no row survives the filters
FallaBase ==
    \/ ~existe_base
    \/ ~({"tipo", "cantidad", "valor unitario", "nit_proveedor"}
            \subseteq {StripLower(c) : c \in columnas_base})
    \/ Filtrar(registros) = <<>>

\* the stock file is missing or lacks a required column
FallaStock ==
    \/ ~existe_stock
    \/ ~({"id", "tipo", "valor unitario", "huevos_disponibles", "huevos_a_vender", "_fecha_dt"}
            \subseteq {StripLower(c) : c \in columnas_stock})

\* C10: a validation failure leaves no output.  optimizar_stock writes no file and
\* returns None when the base file is missing, a required column is absent or no row
\* survives the filters; generar_facturas_desde_optimo raises FileNotFoundError or
\* ValueError, before it creates the folder or a file, when the stock file is missing
\* or a required column is absent.
C10_FallaSinSalida ==
    /\ (prog = "opt" /\ FallaBase) =>
          /\ archivos = {} /\ ~carpeta_creada
          /\ pc \in {"opt_inicio", "opt_fin"}
          /\ pc = "opt_fin" => resultado_opt = "None"
    /\ (prog = "gen" /\ FallaStock) =>
          /\ archivos = {} /\ ~carpeta_creada
          /\ pc \in {"gen_inicio", "gen_fin"}
          /\ pc = "gen_fin" =>
                error_gen = (IF ~existe_stock THEN "FileNotFoundError" ELSE "ValueError")

\* optimizar_stock returned None on a file with every column whose rows were all
\* filtered out
C10_Testigo ==
    /\ prog = "opt" /\ pc = "opt_fin" /\ resultado_opt = "None"
    /\ existe_base /\ ColumnasRequeridasBase \subseteq columnas_base
    /\ registros # <<>> /\ Filtrar(registros) = <<>> /\ archivos = {}
====
